---- MODULE Spec2Model ----
(***************************************************************************)
(* Model of the buffered lookahead cursor (iterators/buffer.rs) and of the *)
(* affix dictionaries (str_processing/x_fix_match) of NAR-dev-util.        *)
(*                                                                         *)
(* Elements and characters are small naturals (their order is the order    *)
(* of the code points).  Option<T> is a sequence: None is <<>>, Some(x) is *)
(* <<x>>.  Result<usize, usize> is a pair <<"Ok", i>> or <<"Err", i>>.     *)
(***************************************************************************)
EXTENDS Integers, Sequences, FiniteSets, TLC

\* ------------------------------------------------------------------------
\* Bounds
\* ------------------------------------------------------------------------
NumChar == 2
MaxSrc == 2
MaxPat == 1
MaxOff == 1
MaxCand == 2
NumAffix == 4
MaxEntries == 3
NumBiAffix == 3
MaxBiEntries == 3
NumPayload == 1
MaxNew == 2

Char == 1..NumChar

RECURSIVE SeqsUpTo(_, _)
SeqsUpTo(S, n) ==
    IF n = 0 THEN {<<>>}
    ELSE LET shorter == SeqsUpTo(S, n - 1)
         IN  shorter \cup {Append(s, x) : s \in shorter, x \in S}

Sources == SeqsUpTo(Char, MaxSrc)
Patterns == SeqsUpTo(Char, MaxPat)
Offsets == 0..MaxOff
\* the affixes offered for registration: "", "b", "ab", "a", "aa", ...
AffixPool ==
    << <<>>, <<2>>, <<1, 2>>, <<1>>, <<1, 1>>, <<2, 1>>, <<2, 2>>,
       <<1, 1, 1>>, <<1, 2, 2>>, <<2, 1, 2>> >>
Affixes == {AffixPool[i] : i \in 1..NumAffix}
BiAffixes == {AffixPool[i] : i \in 1..NumBiAffix}
Candidates == SeqsUpTo(Char, MaxCand)
Payloads == 1..NumPayload

None == <<>>
Some(x) == <<x>>

VARIABLES
    source,         \* the elements the wrapped iterator yields, in order
    taken,          \* how many of them `iterator.next()` has handed out
    buffer,         \* BufferIterator.buffer
    head,           \* BufferIterator.head
    is_began,       \* BufferIterator.is_began
    is_ended,       \* BufferIterator.is_ended
    calls,          \* history: number of buffer_next calls, saturating at Len(source)+1
    algorithms,     \* the crate is built with feature "algorithms"
    kind,           \* which dictionary type the program has constructed
    x_fixes,        \* XFixMatchDict.x_fixes
    prefixes,       \* PrefixMatchDictPair.prefixes: (prefix, associated)
    suffixes,       \* SuffixMatchDictPair.suffixes: (associated, suffix)
    bi_prefixes,    \* BiFixMatchDictPair.prefix_dict.prefixes: (prefix, suffix)
    suffix_ordered_refs, \* BiFixMatchDictPair.suffix_ordered_refs
    op,             \* the last operation called, with its arguments
    ret,            \* what it returned
    panicked        \* the last operation aborted (panic)

cursorVars == <<source, taken, buffer, head, is_began, is_ended, calls>>
dictVars == <<algorithms, kind, x_fixes, prefixes, suffixes, bi_prefixes, suffix_ordered_refs>>
vars == <<cursorVars, dictVars, op, ret, panicked>>

\* ------------------------------------------------------------------------
\* BufferIterator: the cursor as a value, and its methods as functions
\* from a cursor to the cursor after the call and the returned value.
\* ------------------------------------------------------------------------
Cursor ==
    [buffer |-> buffer, head |-> head, is_began |-> is_began,
     is_ended |-> is_ended, taken |-> taken]

New ==
    [buffer |-> <<>>, head |-> 0, is_began |-> FALSE,
     is_ended |-> FALSE, taken |-> 0]

Res(c, r) == [c |-> c, ret |-> r, panic |-> FALSE]
Panic(c) == [c |-> c, ret |-> None, panic |-> TRUE]

\* (self.head + 1) - self.buffer.len(); negative here is a usize underflow
BufferHead(c) == (c.head + 1) - Len(c.buffer)

IsBufferEmpty(c) == c.buffer = <<>>

HeadItem(c) == IF c.buffer = <<>> THEN None ELSE Some(c.buffer[Len(c.buffer)])

\* self.iterator.next()
IteratorNext(c) ==
    IF c.taken < Len(source)
    THEN Res([c EXCEPT !.taken = @ + 1], Some(source[c.taken + 1]))
    ELSE Res(c, None)

\* HeadNext with the increment of `head` forgotten
HeadNextNoIncrement(c) ==
    LET nx == IteratorNext(c)
        c1 == nx.c
    IN  IF nx.ret # None
        THEN Res([c1 EXCEPT !.is_began = TRUE,
                            !.buffer = Append(@, nx.ret[1])], nx.ret)
        ELSE Res([c1 EXCEPT !.is_ended = TRUE], None)

\* HeadNext keeping only the element it has just pulled
HeadNextReplacing(c) ==
    LET nx == IteratorNext(c)
        c1 == nx.c
    IN  IF nx.ret # None
        THEN IF ~c1.is_began
             THEN Res([c1 EXCEPT !.is_began = TRUE, !.buffer = <<nx.ret[1]>>], nx.ret)
             ELSE Res([c1 EXCEPT !.head = @ + 1, !.buffer = <<nx.ret[1]>>], nx.ret)
        ELSE Res([c1 EXCEPT !.is_ended = TRUE], None)

\* HeadNext marking the cursor as begun when the source has nothing to give
HeadNextBeginningAtEnd(c) ==
    LET nx == IteratorNext(c)
        c1 == nx.c
    IN  IF nx.ret # None
        THEN IF ~c1.is_began
             THEN Res([c1 EXCEPT !.is_began = TRUE,
                                 !.buffer = Append(@, nx.ret[1])], nx.ret)
             ELSE Res([c1 EXCEPT !.head = @ + 1,
                                 !.buffer = Append(@, nx.ret[1])], nx.ret)
        ELSE Res([c1 EXCEPT !.is_began = TRUE, !.is_ended = TRUE], None)

\* HeadNext advancing `head` on a pull that finds the source exhausted
HeadNextCountingExhaustion(c) ==
    LET nx == IteratorNext(c)
        c1 == nx.c
    IN  IF nx.ret # None
        THEN IF ~c1.is_began
             THEN Res([c1 EXCEPT !.is_began = TRUE,
                                 !.buffer = Append(@, nx.ret[1])], nx.ret)
             ELSE Res([c1 EXCEPT !.head = @ + 1,
                                 !.buffer = Append(@, nx.ret[1])], nx.ret)
        ELSE Res([c1 EXCEPT !.is_ended = TRUE, !.head = @ + 1], None)

\* HeadNext putting the pulled element at the front of the buffer
HeadNextPushFront(c) ==
    LET nx == IteratorNext(c)
        c1 == nx.c
    IN  IF nx.ret # None
        THEN IF ~c1.is_began
             THEN Res([c1 EXCEPT !.is_began = TRUE,
                                 !.buffer = <<nx.ret[1]>> \o @], nx.ret)
             ELSE Res([c1 EXCEPT !.head = @ + 1,
                                 !.buffer = <<nx.ret[1]>> \o @], nx.ret)
        ELSE Res([c1 EXCEPT !.is_ended = TRUE], None)

HeadNext(c) ==
    LET nx == IteratorNext(c)
        c1 == nx.c
    IN  IF nx.ret # None
        THEN IF ~c1.is_began
             THEN Res([c1 EXCEPT !.is_began = TRUE,
                                 !.buffer = Append(@, nx.ret[1])], nx.ret)
             ELSE Res([c1 EXCEPT !.head = @ + 1,
                                 !.buffer = Append(@, nx.ret[1])], nx.ret)
        ELSE Res([c1 EXCEPT !.is_ended = TRUE], None)

\* BufferNext taking the newest buffered element instead of the oldest
BufferNextPopBack(c) ==
    LET c1 == IF IsBufferEmpty(c) THEN HeadNext(c).c ELSE c
    IN  IF c1.buffer = <<>>
        THEN Res(c1, None)
        ELSE Res([c1 EXCEPT !.buffer = SubSeq(@, 1, Len(@) - 1)],
                 Some(c1.buffer[Len(c1.buffer)]))

BufferNext(c) ==
    LET c1 == IF IsBufferEmpty(c) THEN HeadNext(c).c ELSE c
    IN  IF c1.buffer = <<>>
        THEN Res(c1, None)
        ELSE Res([c1 EXCEPT !.buffer = Tail(@)], Some(Head(c1.buffer)))

\* (0..n).all(|_| self.head_next().is_some()): stops at the first None
RECURSIVE HeadNextN(_, _)
HeadNextN(c, n) ==
    IF n = 0 THEN Res(c, TRUE)
    ELSE LET r == HeadNext(c)
         IN  IF r.ret = None THEN Res(r.c, FALSE) ELSE HeadNextN(r.c, n - 1)

BufferHas(c, index) ==
    IF index < Len(c.buffer) THEN Res(c, TRUE)
    ELSE HeadNextN(c, index - Len(c.buffer) + 1)

\* BufferGet answering an index inside the buffer with the head item
BufferGetBack(c, index) ==
    IF index < Len(c.buffer) THEN Res(c, HeadItem(c))
    ELSE LET r == HeadNextN(c, index - Len(c.buffer) + 1)
         IN  IF r.ret THEN Res(r.c, HeadItem(r.c)) ELSE Res(r.c, None)

BufferGet(c, index) ==
    IF index < Len(c.buffer) THEN Res(c, Some(c.buffer[index + 1]))
    ELSE LET r == HeadNextN(c, index - Len(c.buffer) + 1)
         IN  IF r.ret THEN Res(r.c, HeadItem(r.c)) ELSE Res(r.c, None)

BufferClear(c) == Res([c EXCEPT !.buffer = <<>>], None)

\* pops len_buffer() elements from the front and hands each to f;
\* ret is what f has received, in order
RECURSIVE TransferN(_, _, _)
TransferN(c, n, sink) ==
    IF n = 0 THEN Res(c, sink)
    ELSE IF c.buffer = <<>> THEN Panic(c)
    ELSE TransferN([c EXCEPT !.buffer = Tail(@)], n - 1, Append(sink, Head(c.buffer)))

\* BufferTransfer handing the newest element over first
BufferTransferLifo(c) ==
    Res([c EXCEPT !.buffer = <<>>],
        [i \in 1..Len(c.buffer) |-> c.buffer[Len(c.buffer) + 1 - i]])

BufferTransfer(c) == TransferN(c, Len(c.buffer), <<>>)

\* the same loop with an FnMut sink
BufferTransferMut(c) == TransferN(c, Len(c.buffer), <<>>)

\* collect_buffer_to_string: buffer_collect_to_string(target, buffer.len())
CollectBufferToString(c) == TransferN(c, Len(c.buffer), <<>>)

\* starts_with: `n` is how many elements of `pattern` have been taken out
\* of the pattern iterator when the call returns.
\* Second loop: the rest of the pattern against freshly pulled elements.
RECURSIVE StartsWithHead(_, _, _)
StartsWithHead(c, pattern, k) ==
    IF k > Len(pattern) THEN [c |-> c, ret |-> TRUE, n |-> Len(pattern)]
    ELSE LET r == HeadNext(c)
         IN  IF r.ret = None THEN [c |-> r.c, ret |-> FALSE, n |-> k]
             ELSE IF r.ret[1] # pattern[k] THEN [c |-> r.c, ret |-> FALSE, n |-> k]
             ELSE StartsWithHead(r.c, pattern, k + 1)

\* First loop: the pattern against the buffered elements.
RECURSIVE StartsWithBuffer(_, _, _)
StartsWithBuffer(c, pattern, i) ==
    IF i > Len(c.buffer) THEN StartsWithHead(c, pattern, i)
    ELSE IF i > Len(pattern) THEN [c |-> c, ret |-> TRUE, n |-> Len(pattern)]
    ELSE IF c.buffer[i] # pattern[i] THEN [c |-> c, ret |-> FALSE, n |-> i]
    ELSE StartsWithBuffer(c, pattern, i + 1)

StartsWithCounted(c, pattern) == StartsWithBuffer(c, pattern, 1)

\* StartsWith comparing only against freshly pulled elements
StartsWithIgnoringBuffer(c, pattern) ==
    LET r == StartsWithHead(c, pattern, 1) IN Res(r.c, r.ret)

\* StartsWith giving up as soon as the source has to be pulled
StartsWithBufferOnly(c, pattern) ==
    IF Len(pattern) <= Len(c.buffer)
    THEN Res(c, SubSeq(c.buffer, 1, Len(pattern)) = pattern)
    ELSE Res(c, FALSE)

StartsWith(c, pattern) ==
    LET r == StartsWithCounted(c, pattern) IN Res(r.c, r.ret)

\* pattern.enumerate().all(|(i, item)| self.buffer_get(offset + i).unwrap() == item)
RECURSIVE StartsWithAtUnchecked(_, _, _, _)
StartsWithAtUnchecked(c, buffer_offset, items, i) ==
    IF i > Len(items) THEN Res(c, TRUE)
    ELSE LET g == BufferGet(c, buffer_offset + (i - 1))
         IN  IF g.ret = None THEN Panic(g.c)
             ELSE IF g.ret[1] # items[i] THEN Res(g.c, FALSE)
             ELSE StartsWithAtUnchecked(g.c, buffer_offset, items, i + 1)

\* StartsWithAt asking for one element more than the pattern covers
StartsWithAtOffByOne(c, buffer_offset, pattern) ==
    IF buffer_offset = 0 THEN StartsWith(c, pattern)
    ELSE IF pattern = <<>> THEN Res(c, TRUE)
    ELSE LET h == BufferHas(c, buffer_offset + Len(pattern))
         IN  IF ~h.ret THEN Res(h.c, FALSE)
             ELSE StartsWithAtUnchecked(h.c, buffer_offset, pattern, 1)

\* StartsWithAt without the buffer_has check before the comparison
StartsWithAtUnguarded(c, buffer_offset, pattern) ==
    IF buffer_offset = 0 THEN StartsWith(c, pattern)
    ELSE IF pattern = <<>> THEN Res(c, TRUE)
    ELSE StartsWithAtUnchecked(c, buffer_offset, pattern, 1)

StartsWithAt(c, buffer_offset, pattern) ==
    IF buffer_offset = 0 THEN StartsWith(c, pattern)
    ELSE IF pattern = <<>> THEN Res(c, TRUE)
    ELSE LET h == BufferHas(c, buffer_offset + Len(pattern) - 1)
         IN  IF ~h.ret THEN Res(h.c, FALSE)
             ELSE StartsWithAtUnchecked(h.c, buffer_offset, pattern, 1)

RECURSIVE FindLoop(_, _, _)
FindLoop(c, items, head_offset) ==
    LET h == BufferHas(c, head_offset + Len(items) - 1)
    IN  IF ~h.ret THEN Res(h.c, None)
        ELSE LET f == StartsWithAtUnchecked(h.c, head_offset, items, 1)
             IN  IF f.panic THEN f
                 ELSE IF f.ret THEN Res(f.c, Some(head_offset))
                 ELSE FindLoop(f.c, items, head_offset + 1)

\* FindNextPrefix starting its scan one element too late
FindNextPrefixFromOne(c, pattern) ==
    IF pattern = <<>> THEN Res(c, Some(0))
    ELSE FindLoop(c, pattern, 1)

\* FindNextPrefix pulling one more element once it has its answer
FindNextPrefixGreedy(c, pattern) ==
    IF pattern = <<>> THEN Res(c, Some(0))
    ELSE LET r == FindLoop(c, pattern, 0)
         IN  IF r.panic THEN r ELSE Res(HeadNext(r.c).c, r.ret)

FindNextPrefix(c, pattern) ==
    IF pattern = <<>> THEN Res(c, Some(0))
    ELSE FindLoop(c, pattern, 0)

\* n calls of self.next(), results dropped
RECURSIVE BufferConsumeN(_, _)
BufferConsumeN(c, n) ==
    IF n = 0 THEN c ELSE BufferConsumeN(BufferNext(c).c, n - 1)

\* SkipWhenStartsWith dropping the whole buffer after a match
SkipWhenStartsWithClearing(c, pattern) ==
    LET r == StartsWithCounted(c, pattern)
    IN  IF r.ret THEN Res([r.c EXCEPT !.buffer = <<>>], TRUE)
        ELSE Res(r.c, FALSE)

\* SkipWhenStartsWith consuming what it compared whether it matched or not
SkipWhenStartsWithAlways(c, pattern) ==
    LET r == StartsWithCounted(c, pattern)
    IN  Res(BufferConsumeN(r.c, r.n), r.ret)

SkipWhenStartsWith(c, pattern) ==
    LET r == StartsWithCounted(c, pattern)
    IN  IF r.ret THEN Res(BufferConsumeN(r.c, r.n), TRUE)
        ELSE Res(r.c, FALSE)

\* ------------------------------------------------------------------------
\* The cursor as a state machine: one action per public method
\* ------------------------------------------------------------------------
Min(a, b) == IF a < b THEN a ELSE b

\* BufferIterator::new(iterator)
InitCursor ==
    /\ taken = New.taken
    /\ buffer = New.buffer
    /\ head = New.head
    /\ is_began = New.is_began
    /\ is_ended = New.is_ended
    /\ calls = 0

\* the Default of every dictionary type: empty stores
InitDict ==
    /\ x_fixes = <<>>
    /\ prefixes = <<>>
    /\ suffixes = <<>>
    /\ bi_prefixes = <<>>
    /\ suffix_ordered_refs = <<>>

Init ==
    /\ source \in Sources
    /\ InitCursor
    /\ InitDict
    /\ kind = "none"
    /\ algorithms = FALSE
    /\ op = <<"new">>
    /\ ret = None
    /\ panicked = FALSE

\* install the outcome r of the call `o`, which made `k` buffer_next calls
Apply(o, r, k) ==
    /\ ~panicked
    /\ buffer' = r.c.buffer
    /\ head' = r.c.head
    /\ is_began' = r.c.is_began
    /\ is_ended' = r.c.is_ended
    /\ taken' = r.c.taken
    /\ calls' = Min(calls + k, Len(source) + 1)
    /\ op' = o
    /\ ret' = r.ret
    /\ panicked' = r.panic
    /\ UNCHANGED <<source, dictVars>>

DoHeadNext == Apply(<<"head_next">>, HeadNext(Cursor), 0)

DoBufferNext == Apply(<<"buffer_next">>, BufferNext(Cursor), 1)

DoBufferGet == \E i \in Offsets : Apply(<<"buffer_get", i>>, BufferGet(Cursor, i), 0)

DoBufferHas == \E i \in Offsets : Apply(<<"buffer_has", i>>, BufferHas(Cursor, i), 0)

DoStartsWith ==
    \E p \in Patterns : Apply(<<"starts_with", p>>, StartsWith(Cursor, p), 0)

DoStartsWithAt ==
    \E i \in Offsets, p \in Patterns :
        Apply(<<"starts_with_at", i, p>>, StartsWithAt(Cursor, i, p), 0)

DoFindNextPrefix ==
    \E p \in Patterns :
        Apply(<<"find_next_prefix", p>>, FindNextPrefix(Cursor, p), 0)

DoSkipWhenStartsWith ==
    \E p \in Patterns :
        LET r == SkipWhenStartsWith(Cursor, p)
        IN  Apply(<<"skip_when_starts_with", p>>, r, IF r.ret THEN Len(p) ELSE 0)

DoBufferTransfer == Apply(<<"buffer_transfer">>, BufferTransfer(Cursor), 0)

DoBufferTransferMut ==
    Apply(<<"buffer_transfer_mut">>, BufferTransferMut(Cursor), 0)

DoCollectBufferToString ==
    Apply(<<"collect_buffer_to_string">>, CollectBufferToString(Cursor), 0)

DoBufferClear == Apply(<<"buffer_clear">>, BufferClear(Cursor), 0)

\* consume() and the probing calls only
NextProbe ==
    \/ DoHeadNext
    \/ DoBufferNext
    \/ DoBufferGet
    \/ DoBufferHas
    \/ DoStartsWith
    \/ DoStartsWithAt
    \/ DoFindNextPrefix

Next ==
    \/ NextProbe
    \/ DoSkipWhenStartsWith
    \/ DoBufferTransfer
    \/ DoBufferTransferMut
    \/ DoCollectBufferToString
    \/ DoBufferClear

Spec == Init /\ [][Next]_vars

SpecProbe == Init /\ [][NextProbe]_vars

\* ------------------------------------------------------------------------
\* Search primitives
\* ------------------------------------------------------------------------
Ok(i) == <<"Ok", i>>
Err(i) == <<"Err", i>>
Aborted == <<"Panic", 0>>

\* Ord::cmp on strings: element-wise, a proper prefix is Less
RECURSIVE StrCmpFrom(_, _, _)
StrCmpFrom(a, b, i) ==
    IF i > Len(a) /\ i > Len(b) THEN "Equal"
    ELSE IF i > Len(a) THEN "Less"
    ELSE IF i > Len(b) THEN "Greater"
    ELSE IF a[i] < b[i] THEN "Less"
    ELSE IF a[i] > b[i] THEN "Greater"
    ELSE StrCmpFrom(a, b, i + 1)

StrCmp(a, b) == StrCmpFrom(a, b, 1)

\* Vec::insert(index, element), index from 0
InsertAt(arr, index, x) ==
    SubSeq(arr, 1, index) \o <<x>> \o SubSeq(arr, index + 1, Len(arr))

SetMin(S) == CHOOSE x \in S : \A y \in S : x <= y

Range(seq) == {seq[i] : i \in 1..Len(seq)}

\* linear_search_by with every miss reported as "insert at the end"
LinearSearchByAppending(arr, target, cmp) ==
    LET stops == {i \in 1..Len(arr) : cmp[target, arr[i]] = "Equal"}
    IN  IF stops = {} THEN Err(Len(arr)) ELSE Ok(SetMin(stops) - 1)

\* the loop stops at the first element that does not compare Greater;
\* the closure `cmp` is a function of (target, existed)
LinearSearchBy(arr, target, cmp) ==
    LET stops == {i \in 1..Len(arr) : cmp[target, arr[i]] # "Greater"}
    IN  IF stops = {} THEN Err(Len(arr))
        ELSE LET i == SetMin(stops)
                 o == cmp[target, arr[i]]
             IN  IF o = "Equal" THEN Ok(i - 1)
                 ELSE IF o = "Less" THEN Err(i - 1)
                 ELSE Aborted

\* search_by without the binary-search feature
SearchBy(arr, target, cmp) == LinearSearchBy(arr, target, cmp)

\* binary_search: the loop, with `mid` the last probed index
RECURSIVE BinarySearchLoop(_, _, _, _, _)
BinarySearchLoop(arr, target, left, right, mid) ==
    LET Finish(m) == Err(IF StrCmp(arr[m + 1], target) = "Less" THEN m + 1 ELSE m)
    IN  IF left <= right
        THEN LET m == left + ((right - left) \div 2)
                 o == StrCmp(target, arr[m + 1])
             IN  IF o = "Equal" THEN Ok(m)
                 ELSE IF o = "Greater"
                      THEN BinarySearchLoop(arr, target, m + 1, right, m)
                 ELSE IF m = 0 THEN Finish(m)
                 ELSE BinarySearchLoop(arr, target, left, m - 1, m)
        ELSE Finish(mid)

\* `arr.len() - 1` overflows on the empty slice: a panic in a checked build,
\* and in an unchecked one usize::MAX, whose midpoint is out of bounds
BinarySearch(arr, target) ==
    IF Len(arr) = 0 THEN Aborted
    ELSE BinarySearchLoop(arr, target, 0, Len(arr) - 1, (Len(arr) - 1) \div 2)

\* str::starts_with / str::ends_with
IsPrefix(p, s) == Len(p) <= Len(s) /\ SubSeq(s, 1, Len(p)) = p
IsSuffix(p, s) == Len(p) <= Len(s) /\ SubSeq(s, Len(s) - Len(p) + 1, Len(s)) = p

\* a find that keeps looking and answers with the last term that matches
FindLast(terms, matches) ==
    LET hits == {i \in 1..Len(terms) : matches[terms[i]]}
    IN  IF hits = {} THEN None
        ELSE Some(terms[CHOOSE i \in hits : \A j \in hits : j <= i])

\* Iterator::find over a sequence of terms; the predicate is a function of
\* the term
Find(terms, matches) ==
    LET hits == {i \in 1..Len(terms) : matches[terms[i]]}
    IN  IF hits = {} THEN None ELSE Some(terms[SetMin(hits)])

Reverse(seq) == [i \in 1..Len(seq) |-> seq[Len(seq) + 1 - i]]

DRes(d, r) == [d |-> d, ret |-> r, panic |-> FALSE]
DPanic(d) == [d |-> d, ret |-> None, panic |-> TRUE]

\* ------------------------------------------------------------------------
\* XFixMatchDict (= PrefixMatchDict = SuffixMatchDict)
\* ------------------------------------------------------------------------
\* the terms of an XFixMatchDict are the affixes themselves
XFixOf(term) == term

XFixSearch(fixes, x_fix) ==
    IF algorithms THEN BinarySearch(fixes, x_fix)
    ELSE LinearSearchBy(fixes, x_fix,
            [target \in {x_fix}, existed \in Range(fixes) |-> StrCmp(target, existed)])

XFixInsert(fixes, x_fix) ==
    LET found == XFixSearch(fixes, x_fix)
    IN  IF found[1] = "Panic" THEN DPanic(fixes)
        ELSE IF found[1] = "Ok" THEN DRes(fixes, None)
        ELSE DRes(InsertAt(fixes, found[2], x_fix), None)

\* iter_x_fixes with the reversal forgotten
IterXFixesForward(fixes) == fixes

IterXFixes(fixes) == Reverse(fixes)

XFixMatchPrefix(fixes, to_match) ==
    Find(IterXFixes(fixes),
         [term \in Range(fixes) |-> IsPrefix(XFixOf(term), to_match)])

XFixMatchSuffix(fixes, to_match) ==
    Find(IterXFixes(fixes),
         [term \in Range(fixes) |-> IsSuffix(XFixOf(term), to_match)])

\* ------------------------------------------------------------------------
\* PrefixMatchDictPair<T>: terms are (prefix, associated)
\* ------------------------------------------------------------------------
PrefixOf(term) == term[1]

CmpPrefix(term, prefix) == StrCmp(PrefixOf(term), prefix)

PrefixPairSearch(terms, prefix) ==
    SearchBy(terms, prefix,
        [target \in {prefix}, existed \in Range(terms) |-> CmpPrefix(existed, target)])

PrefixPairInsert(terms, term) ==
    LET found == PrefixPairSearch(terms, PrefixOf(term))
    IN  IF found[1] = "Panic" THEN DPanic(terms)
        ELSE IF found[1] = "Err"
             THEN DRes(InsertAt(terms, found[2], term), Some(found[2]))
        ELSE DRes(terms, None)

PrefixPairMatchPrefix(terms, to_match) ==
    Find(terms, [term \in Range(terms) |-> IsPrefix(PrefixOf(term), to_match)])

\* ------------------------------------------------------------------------
\* SuffixMatchDictPair<T>: terms are (associated, suffix)
\* ------------------------------------------------------------------------
SuffixOf(term) == term[2]

CmpSuffix(term, suffix) == StrCmp(SuffixOf(term), suffix)

SuffixPairSearch(terms, suffix) ==
    SearchBy(terms, suffix,
        [target \in {suffix}, existed \in Range(terms) |-> CmpSuffix(existed, target)])

SuffixPairInsert(terms, term) ==
    LET found == SuffixPairSearch(terms, SuffixOf(term))
    IN  IF found[1] = "Panic" THEN DPanic(terms)
        ELSE IF found[1] = "Err"
             THEN DRes(InsertAt(terms, found[2], term), Some(found[2]))
        ELSE DRes(terms, None)

SuffixPairMatchSuffix(terms, to_match) ==
    Find(terms, [term \in Range(terms) |-> IsSuffix(SuffixOf(term), to_match)])

\* ------------------------------------------------------------------------
\* BiFixMatchDictPair: terms are (prefix, suffix);
\* d.prefixes is prefix_dict.prefixes, d.refs is suffix_ordered_refs
\* ------------------------------------------------------------------------
BiDict == [prefixes |-> bi_prefixes, refs |-> suffix_ordered_refs]

\* self.prefix_dict.prefixes.get(index)
GetTermByIndex(d, index) ==
    IF index < Len(d.prefixes) THEN Some(d.prefixes[index + 1]) ELSE None

BiSearchPrefix(d, prefix) == PrefixPairSearch(d.prefixes, prefix)

\* the comparison unwraps the indexed term
BiSearchSuffix(d, suffix) ==
    LET Unwrapped(target, term_index) ==
            LET term_ref == GetTermByIndex(d, term_index)
            IN  IF term_ref = None THEN "Panic" ELSE CmpSuffix(term_ref[1], target)
    IN  SearchBy(d.refs, suffix,
            [target \in {suffix}, term_index \in Range(d.refs) |->
                Unwrapped(target, term_index)])

\* the same with the indices left as they were
ShiftRefsForgotten(refs, i_term) == refs

\* the same moving only the indices after the insertion point
ShiftRefsAfterOnly(refs, i_term) ==
    [k \in 1..Len(refs) |-> IF refs[k] > i_term THEN refs[k] + 1 ELSE refs[k]]

\* the update of the suffix-ordered indices after an insertion at i_term
ShiftRefs(refs, i_term) ==
    [k \in 1..Len(refs) |-> IF refs[k] >= i_term THEN refs[k] + 1 ELSE refs[k]]

\* BiInsert entering the new suffix in the index before the prefix is known
\* to be new
BiInsertIndexFirst(d, term) ==
    LET search_result == BiSearchSuffix(d, SuffixOf(term))
    IN  IF search_result[1] = "Panic" THEN DPanic(d)
        ELSE IF search_result[1] = "Err"
        THEN LET i_insert == search_result[2]
                 inserted == PrefixPairInsert(d.prefixes, term)
             IN  IF inserted.panic THEN DPanic(d)
                 ELSE IF inserted.ret # None
                 THEN LET i_term == inserted.ret[1]
                      IN  DRes([prefixes |-> inserted.d,
                                refs |-> InsertAt(ShiftRefs(d.refs, i_term),
                                                  i_insert, i_term)], TRUE)
                 ELSE DRes([prefixes |-> d.prefixes,
                            refs |-> InsertAt(d.refs, i_insert, 0)], FALSE)
        ELSE DRes(d, FALSE)

BiInsert(d, term) ==
    LET search_result == BiSearchSuffix(d, SuffixOf(term))
    IN  IF search_result[1] = "Panic" THEN DPanic(d)
        ELSE IF search_result[1] = "Err"
        THEN LET i_insert == search_result[2]
                 inserted == PrefixPairInsert(d.prefixes, term)
             IN  IF inserted.panic THEN DPanic(d)
                 ELSE IF inserted.ret # None
                 THEN LET i_term == inserted.ret[1]
                      IN  DRes([prefixes |-> inserted.d,
                                refs |-> InsertAt(ShiftRefs(d.refs, i_term),
                                                  i_insert, i_term)], TRUE)
                 ELSE DRes(d, FALSE)
        ELSE DRes(d, FALSE)

BiMatchPrefix(d, to_match) == DRes(d, PrefixPairMatchPrefix(d.prefixes, to_match))

\* suffix_terms maps each index through get_term_by_index(..).unwrap();
\* find stops at the first term that matches
BiMatchSuffix(d, to_match) ==
    LET Stops(k) == \/ GetTermByIndex(d, d.refs[k]) = None
                    \/ IsSuffix(SuffixOf(GetTermByIndex(d, d.refs[k])[1]), to_match)
        hits == {k \in 1..Len(d.refs) : Stops(k)}
    IN  IF hits = {} THEN DRes(d, None)
        ELSE LET term_ref == GetTermByIndex(d, d.refs[SetMin(hits)])
             IN  IF term_ref = None THEN DPanic(d) ELSE DRes(d, term_ref)

\* ------------------------------------------------------------------------
\* Construction from an iterable, and by the dictionary-building macros
\* ------------------------------------------------------------------------
\* XFixMatchDict::new collects the items into the store as they come
XFixNew(prefixes_in) == DRes(prefixes_in, None)

\* x_fix_match_dict!: default(), then one insert per item
RECURSIVE XFixInsertEach(_, _)
XFixInsertEach(fixes, items) ==
    IF items = <<>> THEN DRes(fixes, None)
    ELSE LET r == XFixInsert(fixes, Head(items))
         IN  IF r.panic THEN DPanic(fixes) ELSE XFixInsertEach(r.d, Tail(items))

XFixMatchDictMacro(items) == XFixInsertEach(<<>>, items)

RECURSIVE PrefixPairInsertEach(_, _)
PrefixPairInsertEach(terms, items) ==
    IF items = <<>> THEN DRes(terms, None)
    ELSE LET r == PrefixPairInsert(terms, Head(items))
         IN  IF r.panic THEN DPanic(terms)
             ELSE PrefixPairInsertEach(r.d, Tail(items))

PrefixPairNew(prefixes_in) == PrefixPairInsertEach(<<>>, prefixes_in)

PrefixMatchDictPairMacro(items) == PrefixPairInsertEach(<<>>, items)

RECURSIVE SuffixPairInsertEach(_, _)
SuffixPairInsertEach(terms, items) ==
    IF items = <<>> THEN DRes(terms, None)
    ELSE LET r == SuffixPairInsert(terms, Head(items))
         IN  IF r.panic THEN DPanic(terms)
             ELSE SuffixPairInsertEach(r.d, Tail(items))

SuffixPairNew(suffixes_in) == SuffixPairInsertEach(<<>>, suffixes_in)

SuffixMatchDictPairMacro(items) == SuffixPairInsertEach(<<>>, items)

BiDefault == [prefixes |-> <<>>, refs |-> <<>>]

RECURSIVE BiInsertEach(_, _)
BiInsertEach(d, items) ==
    IF items = <<>> THEN DRes(d, None)
    ELSE LET r == BiInsert(d, Head(items))
         IN  IF r.panic THEN DPanic(d) ELSE BiInsertEach(r.d, Tail(items))

\* BiFixMatchDictPair::new: one insert per item, then an insert of ("", "")
BiNew(bi_fixes) ==
    LET each == BiInsertEach(BiDefault, bi_fixes)
    IN  IF each.panic THEN each
        ELSE LET last == BiInsert(each.d, <<<<>>, <<>>>>)
             IN  IF last.panic THEN DPanic(each.d) ELSE DRes(last.d, None)

\* bi_fix_match_dict_pair!: default(), then one insert per item
BiFixMatchDictPairMacro(items) == BiInsertEach(BiDefault, items)

\* ------------------------------------------------------------------------
\* The dictionaries as a state machine: one action per method,
\* on the dictionary type the program has constructed (kind)
\* ------------------------------------------------------------------------
PrefixTerms == Affixes \X Payloads
SuffixTerms == Payloads \X Affixes
BiFixTerms == BiAffixes \X BiAffixes

Kinds == {"x_fix", "prefix_pair", "suffix_pair", "bi_fix"}

InitDicts ==
    /\ source = <<>>
    /\ InitCursor
    /\ InitDict
    /\ kind \in Kinds
    /\ algorithms \in (IF kind = "x_fix" THEN BOOLEAN ELSE {FALSE})
    /\ op = <<"default">>
    /\ ret = None
    /\ panicked = FALSE

Called(o, r, p) ==
    /\ op' = o
    /\ ret' = r
    /\ panicked' = p
    /\ UNCHANGED <<cursorVars, algorithms, kind>>

DoXFixInsert ==
    \E x_fix \in Affixes :
        LET r == XFixInsert(x_fixes, x_fix)
        IN  /\ kind = "x_fix" /\ ~panicked
            /\ Len(r.d) <= MaxEntries
            /\ x_fixes' = r.d
            /\ Called(<<"insert", x_fix>>, r.ret, r.panic)
            /\ UNCHANGED <<prefixes, suffixes, bi_prefixes, suffix_ordered_refs>>

\* a query: the stores stay as they are
Query(k, o, r) ==
    /\ kind = k /\ ~panicked
    /\ Called(o, r, FALSE)
    /\ UNCHANGED <<x_fixes, prefixes, suffixes, bi_prefixes, suffix_ordered_refs>>

\* a search: Result<usize, usize>, or the panic of the search primitive
Search(k, o, found) ==
    /\ kind = k /\ ~panicked
    /\ Called(o, IF found[1] = "Panic" THEN None ELSE found, found[1] = "Panic")
    /\ UNCHANGED <<x_fixes, prefixes, suffixes, bi_prefixes, suffix_ordered_refs>>

DoXFixSearch ==
    \E x_fix \in Affixes :
        Search("x_fix", <<"search", x_fix>>, XFixSearch(x_fixes, x_fix))

DoXFixMatchPrefix ==
    \E to_match \in Candidates :
        Query("x_fix", <<"match_prefix", to_match>>, XFixMatchPrefix(x_fixes, to_match))

DoXFixMatchSuffix ==
    \E to_match \in Candidates :
        Query("x_fix", <<"match_suffix", to_match>>, XFixMatchSuffix(x_fixes, to_match))

DoPrefixPairInsert ==
    \E term \in PrefixTerms :
        LET r == PrefixPairInsert(prefixes, term)
        IN  /\ kind = "prefix_pair" /\ ~panicked
            /\ Len(r.d) <= MaxEntries
            /\ prefixes' = r.d
            /\ Called(<<"insert", term>>, r.ret, r.panic)
            /\ UNCHANGED <<x_fixes, suffixes, bi_prefixes, suffix_ordered_refs>>

DoPrefixPairSearch ==
    \E prefix \in Affixes :
        Search("prefix_pair", <<"search", prefix>>, PrefixPairSearch(prefixes, prefix))

DoPrefixPairMatchPrefix ==
    \E to_match \in Candidates :
        Query("prefix_pair", <<"match_prefix", to_match>>,
              PrefixPairMatchPrefix(prefixes, to_match))

DoSuffixPairInsert ==
    \E term \in SuffixTerms :
        LET r == SuffixPairInsert(suffixes, term)
        IN  /\ kind = "suffix_pair" /\ ~panicked
            /\ Len(r.d) <= MaxEntries
            /\ suffixes' = r.d
            /\ Called(<<"insert", term>>, r.ret, r.panic)
            /\ UNCHANGED <<x_fixes, prefixes, bi_prefixes, suffix_ordered_refs>>

DoSuffixPairSearch ==
    \E suffix \in Affixes :
        Search("suffix_pair", <<"search", suffix>>, SuffixPairSearch(suffixes, suffix))

DoSuffixPairMatchSuffix ==
    \E to_match \in Candidates :
        Query("suffix_pair", <<"match_suffix", to_match>>,
              SuffixPairMatchSuffix(suffixes, to_match))

DoBiInsert ==
    \E term \in BiFixTerms :
        LET r == BiInsert(BiDict, term)
        IN  /\ kind = "bi_fix" /\ ~panicked
            /\ Len(r.d.prefixes) <= MaxBiEntries
            /\ bi_prefixes' = r.d.prefixes
            /\ suffix_ordered_refs' = r.d.refs
            /\ Called(<<"insert", term>>, r.ret, r.panic)
            /\ UNCHANGED <<x_fixes, prefixes, suffixes>>

DoBiSearchPrefix ==
    \E prefix \in BiAffixes :
        Search("bi_fix", <<"search", prefix>>, BiSearchPrefix(BiDict, prefix))

DoBiSearchSuffix ==
    \E suffix \in BiAffixes :
        Search("bi_fix", <<"search_suffix", suffix>>, BiSearchSuffix(BiDict, suffix))

DoBiMatchPrefix ==
    \E to_match \in Candidates :
        LET r == BiMatchPrefix(BiDict, to_match)
        IN  /\ kind = "bi_fix" /\ ~panicked
            /\ Called(<<"match_prefix", to_match>>, r.ret, r.panic)
            /\ UNCHANGED <<x_fixes, prefixes, suffixes, bi_prefixes, suffix_ordered_refs>>

DoBiMatchSuffix ==
    \E to_match \in Candidates :
        LET r == BiMatchSuffix(BiDict, to_match)
        IN  /\ kind = "bi_fix" /\ ~panicked
            /\ Called(<<"match_suffix", to_match>>, r.ret, r.panic)
            /\ UNCHANGED <<x_fixes, prefixes, suffixes, bi_prefixes, suffix_ordered_refs>>

NextDicts ==
    \/ DoXFixInsert
    \/ DoXFixSearch
    \/ DoXFixMatchPrefix
    \/ DoXFixMatchSuffix
    \/ DoPrefixPairInsert
    \/ DoPrefixPairSearch
    \/ DoPrefixPairMatchPrefix
    \/ DoSuffixPairInsert
    \/ DoSuffixPairSearch
    \/ DoSuffixPairMatchSuffix
    \/ DoBiInsert
    \/ DoBiSearchPrefix
    \/ DoBiSearchSuffix
    \/ DoBiMatchPrefix
    \/ DoBiMatchSuffix

SpecDicts == InitDicts /\ [][NextDicts]_vars

\* ------------------------------------------------------------------------
\* Dictionaries built by their constructor and then queried
\* ------------------------------------------------------------------------
XFixInputs == SeqsUpTo(Affixes, MaxNew)
PrefixPairInputs == SeqsUpTo(PrefixTerms, MaxNew)
SuffixPairInputs == SeqsUpTo(SuffixTerms, MaxNew)
BiFixInputs == SeqsUpTo(BiFixTerms, MaxNew)

\* the constructor runs once, before any other method
Constructing(k) == kind = k /\ op = <<"default">>

DoXFixNew ==
    \E prefixes_in \in XFixInputs :
        LET r == XFixNew(prefixes_in)
        IN  /\ Constructing("x_fix")
            /\ x_fixes' = r.d
            /\ Called(<<"new", prefixes_in>>, r.ret, r.panic)
            /\ UNCHANGED <<prefixes, suffixes, bi_prefixes, suffix_ordered_refs>>

DoPrefixPairNew ==
    \E prefixes_in \in PrefixPairInputs :
        LET r == PrefixPairNew(prefixes_in)
        IN  /\ Constructing("prefix_pair")
            /\ prefixes' = r.d
            /\ Called(<<"new", prefixes_in>>, r.ret, r.panic)
            /\ UNCHANGED <<x_fixes, suffixes, bi_prefixes, suffix_ordered_refs>>

DoSuffixPairNew ==
    \E suffixes_in \in SuffixPairInputs :
        LET r == SuffixPairNew(suffixes_in)
        IN  /\ Constructing("suffix_pair")
            /\ suffixes' = r.d
            /\ Called(<<"new", suffixes_in>>, r.ret, r.panic)
            /\ UNCHANGED <<x_fixes, prefixes, bi_prefixes, suffix_ordered_refs>>

DoBiNew ==
    \E bi_fixes \in BiFixInputs :
        LET r == BiNew(bi_fixes)
        IN  /\ Constructing("bi_fix")
            /\ bi_prefixes' = r.d.prefixes
            /\ suffix_ordered_refs' = r.d.refs
            /\ Called(<<"new", bi_fixes>>, r.ret, r.panic)
            /\ UNCHANGED <<x_fixes, prefixes, suffixes>>

\* a query on a constructed dictionary
Constructed == op # <<"default">>

NextNew ==
    \/ DoXFixNew
    \/ DoPrefixPairNew
    \/ DoSuffixPairNew
    \/ DoBiNew
    \/ Constructed /\ DoXFixMatchPrefix
    \/ Constructed /\ DoXFixMatchSuffix
    \/ Constructed /\ DoPrefixPairMatchPrefix
    \/ Constructed /\ DoSuffixPairMatchSuffix
    \/ Constructed /\ DoBiMatchPrefix
    \/ Constructed /\ DoBiMatchSuffix

SpecNew == InitDicts /\ [][NextNew]_vars

\* ------------------------------------------------------------------------
\* Properties of the cursor
\* ------------------------------------------------------------------------

C5_ConsumeInOrder ==
    op[1] = "buffer_next" =>
        ret = (IF calls <= Len(source) THEN Some(source[calls]) ELSE None)

\* a second consume() that returns an element after lookahead has already
\* run into the end of the source
C5_Witness ==
    /\ op[1] = "buffer_next"
    /\ calls = 2
    /\ ret # None
    /\ is_ended

\* C6: a successful skip_when_starts_with(p) leaves the cursor exactly where
\* |p| consume() calls from the state before the call would have left it.
C6_SkipCommit ==
    [][(op'[1] = "skip_when_starts_with" /\ ret' = TRUE) =>
           Cursor' = BufferConsumeN(Cursor, Len(op'[2]))]_vars

\* a successful skip of a non-empty pattern out of a longer buffer
C6_Witness ==
    /\ op[1] = "skip_when_starts_with"
    /\ ret = TRUE
    /\ op[2] # <<>>
    /\ buffer # <<>>

\* C7: starts_with(p) called again with the same p returns the same boolean
\* and leaves the buffer length and head where the first call left them.
C7_ProbeIdempotent ==
    [][(op[1] = "starts_with" /\ op' = op) =>
           (ret' = ret /\ Len(buffer') = Len(buffer) /\ head' = head)]_vars

\* a failed probe of a non-empty pattern on a source that has run out
C7_Witness ==
    /\ op[1] = "starts_with"
    /\ ret = FALSE
    /\ op[2] # <<>>
    /\ source # <<>>
    /\ is_ended

\* the elements ahead of the consumption point: the buffered ones, then the
\* ones the wrapped iterator has not handed out yet
Rest(c) == c.buffer \o SubSeq(source, c.taken + 1, Len(source))

\* the elements at positions k .. k+|p|-1 (from 0) of s are p
MatchesAt(s, k, p) == k + Len(p) <= Len(s) /\ SubSeq(s, k + 1, k + Len(p)) = p

\* how many elements of p a left-to-right comparison with s looks at
Compared(s, p) ==
    LET bad == {j \in 1..Len(p) : j > Len(s) \/ s[j] # p[j]}
    IN  IF bad = {} THEN Len(p) ELSE SetMin(bad)

\* the buffer after lookahead has reached the first n elements of Rest(c)
Extended(c, n) ==
    LET s == Rest(c)
        m == IF n > Len(s) THEN Len(s) ELSE n
    IN  SubSeq(s, 1, IF m > Len(c.buffer) THEN m ELSE Len(c.buffer))

Probing ==
    {"head_next", "buffer_get", "buffer_has", "starts_with", "starts_with_at",
     "find_next_prefix"}

Draining == {"buffer_transfer", "buffer_transfer_mut", "collect_buffer_to_string"}

\* C11: find_next_prefix(p) returns the smallest offset at which p occurs in
\* the buffer followed by the rest of the source, "not found" exactly when
\* there is none, and 0 for the empty p without pulling an element.
C11_FindSmallestOffset ==
    [][op'[1] = "find_next_prefix" =>
           LET s == Rest(Cursor)
               p == op'[2]
               at == {k \in 0..Len(s) : MatchesAt(s, k, p)}
           IN  /\ ~panicked'
               /\ ret' = (IF at = {} THEN None ELSE Some(SetMin(at)))
               /\ p = <<>> => Cursor' = Cursor]_vars

\* a non-empty pattern found behind the first element
C11_Witness ==
    /\ op[1] = "find_next_prefix"
    /\ op[2] # <<>>
    /\ ret = Some(1)

\* C12: starts_with(p) is true exactly when p is a prefix of the buffer
\* followed by the rest of the source; it stops at the first mismatch or at
\* the end of the source; the empty p gives true in every state.
C12_StartsWithIffPrefix ==
    [][op'[1] = "starts_with" =>
           LET s == Rest(Cursor)
               p == op'[2]
           IN  /\ ~panicked'
               /\ ret' = IsPrefix(p, s)
               /\ buffer' = Extended(Cursor, Compared(s, p))
               /\ p = <<>> => ret' = TRUE]_vars

\* a non-empty pattern matched against elements that are all in the buffer
\* once the call returns
C12_Witness ==
    /\ op[1] = "starts_with"
    /\ op[2] # <<>>
    /\ ret = TRUE
    /\ Len(buffer) >= 2

C15_BufferHeadUnaffected ==
    [][op'[1] = "find_next_prefix" =>
           BufferHead(Cursor') = BufferHead(Cursor)]_vars

\* C16 (as amended): a skip_when_starts_with(p) that returns false consumes
\* nothing and leaves the cursor as starts_with(p) leaves it: the elements
\* ahead of the consumption point are the same, the buffer has only grown.
C16_FailedSkipIsProbe ==
    [][(op'[1] = "skip_when_starts_with" /\ ret' = FALSE) =>
           /\ ~panicked'
           /\ Cursor' = StartsWith(Cursor, op'[2]).c
           /\ Rest(Cursor') = Rest(Cursor)
           /\ IsPrefix(buffer, buffer')]_vars

\* C16 as stated: a skip_when_starts_with(p) that returns false leaves
\* buffer, head, began and ended as they were.
C16_FailedSkipUntouched ==
    [][(op'[1] = "skip_when_starts_with" /\ ret' = FALSE) =>
           Cursor' = Cursor]_vars

\* a failed skip on a source that still has elements, one of them buffered
C16_Witness ==
    /\ op[1] = "skip_when_starts_with"
    /\ ret = FALSE
    /\ buffer # <<>>
    /\ ~is_ended

\* C17: a probing call only appends to the buffer: the buffer before the
\* call is a prefix of the buffer after it.
C17_ProbingOnlyAppends ==
    [][op'[1] \in Probing => IsPrefix(buffer, buffer')]_vars

\* a probing call that returned with two elements buffered
C17_Witness ==
    /\ op[1] = "buffer_has"
    /\ ret = TRUE
    /\ Len(buffer) = 2

\* C18: a drain hands the buffered elements to the sink oldest first, leaves
\* the buffer empty, pulls nothing and leaves head, began and ended alone.
C18_DrainFifo ==
    [][op'[1] \in Draining =>
           /\ ~panicked'
           /\ ret' = buffer
           /\ buffer' = <<>>
           /\ taken' = taken
           /\ head' = head
           /\ is_began' = is_began
           /\ is_ended' = is_ended]_vars

\* a drain of two different elements
C18_Witness ==
    /\ op[1] = "buffer_transfer"
    /\ Len(ret) = 2
    /\ ret[1] # ret[2]
    /\ buffer = <<>>

Max(a, b) == IF a > b THEN a ELSE b

\* C22 (as amended): began is true exactly when an element has been pulled,
\* ended is true only once the source has reported exhaustion; so (began,
\* ended) is one of (false,false), (true,false), (true,true), and
\* (false,true) when the source is empty.
C22_FlagStates ==
    /\ is_began <=> taken >= 1
    /\ is_ended => taken = Len(source)
    /\ (is_ended /\ ~is_began) => source = <<>>

\* C22 as stated: in every reachable state ended = true implies began = true.
C22_EndedImpliesBegan == is_ended => is_began

\* a pull on the empty source
C22_Witness ==
    /\ source = <<>>
    /\ op[1] = "head_next"
    /\ is_ended
    /\ ~is_began

\* C23: began and ended never go back to false; once ended is true no call
\* pulls, appends to the buffer or changes head, and buffer_next on an empty
\* buffer returns no element.
C23_FlagsMonotonic ==
    [][/\ is_began => is_began'
       /\ is_ended =>
              /\ is_ended'
              /\ taken' = taken
              /\ head' = head
              /\ \E k \in 0..Len(buffer) :
                     buffer' = SubSeq(buffer, k + 1, Len(buffer))
              /\ (op'[1] = "buffer_next" /\ buffer = <<>>) => ret' = None]_vars

\* a consume on a cursor that has ended and holds nothing, after a consume
\* that returned the last element
C23_Witness ==
    /\ op[1] = "buffer_next"
    /\ ret = None
    /\ is_began
    /\ is_ended
    /\ calls = Len(source) + 1
    /\ Len(source) >= 2

C26_BufferIsSourceRun ==
    is_began =>
        /\ head + 1 = taken
        /\ BufferHead(Cursor) >= 0
        /\ buffer = SubSeq(source, BufferHead(Cursor) + 1, head + 1)

\* one element consumed, the next one buffered
C26_Witness ==
    /\ op[1] = "buffer_next"
    /\ is_began
    /\ head = 1
    /\ Len(buffer) = 1
    /\ buffer[1] # source[1]

\* C27: starts_with(p) pulls at most max(0, |p| - len) elements, and a
\* find_next_prefix(p) that returns offset k leaves the buffer with
\* max(len, k + |p|) elements.
C27_MinimalLookahead ==
    [][/\ op'[1] = "starts_with" =>
              /\ taken' - taken <= Max(0, Len(op'[2]) - Len(buffer))
              /\ Len(buffer') <= Max(Len(buffer), Len(op'[2]))
       /\ (op'[1] = "find_next_prefix" /\ ret' # None) =>
              Len(buffer') = Max(Len(buffer), ret'[1] + Len(op'[2]))]_vars

\* a non-empty pattern found at the head of a longer source: what follows the
\* match has not been pulled
C27_Witness ==
    /\ op[1] = "find_next_prefix"
    /\ op[2] # <<>>
    /\ ret = Some(0)
    /\ Len(buffer) = Len(op[2])
    /\ taken < Len(source)

\* C28: buffer_head() is the number of elements that have left the front of
\* the buffer, i.e. the source index of the oldest buffered element, in
\* every state; it is 0 on a cursor that has not begun.
C28_BufferHeadIsConsumed ==
    /\ BufferHead(Cursor) = taken - Len(buffer)
    /\ ~is_began => BufferHead(Cursor) = 0

\* ------------------------------------------------------------------------
\* Properties of the dictionaries
\* ------------------------------------------------------------------------
StrictlyAscending(strs) ==
    \A i, j \in 1..Len(strs) : i < j => StrCmp(strs[i], strs[j]) = "Less"

StrictlyDescending(strs) ==
    \A i, j \in 1..Len(strs) : i < j => StrCmp(strs[i], strs[j]) = "Greater"

PrefixesIn(terms) == [i \in 1..Len(terms) |-> PrefixOf(terms[i])]
SuffixesIn(terms) == [i \in 1..Len(terms) |-> SuffixOf(terms[i])]

\* the suffixes of the bidirectional dictionary read through its index
BiSuffixesInIndexOrder ==
    [k \in 1..Len(suffix_ordered_refs) |->
        SuffixOf(bi_prefixes[suffix_ordered_refs[k] + 1])]

\* the terms of the constructed dictionary, and the affix a term is matched by
StoredTerms ==
    CASE kind = "x_fix" -> Range(x_fixes)
      [] kind = "prefix_pair" -> Range(prefixes)
      [] kind = "suffix_pair" -> Range(suffixes)
      [] kind = "bi_fix" -> Range(bi_prefixes)
      [] OTHER -> {}

PrefixAffix(term) == IF kind = "x_fix" THEN term ELSE PrefixOf(term)
SuffixAffix(term) == IF kind = "x_fix" THEN term ELSE SuffixOf(term)

\* C2 (as amended): after every insert the backing store is strictly sorted by
\* affix and holds no affix twice; XFixMatchDict keeps it ascending, the pair
\* dictionaries and the primary store of BiFixMatchDictPair keep it descending.
C2_StoresSorted ==
    /\ StrictlyAscending(x_fixes)
    /\ StrictlyDescending(PrefixesIn(prefixes))
    /\ StrictlyDescending(SuffixesIn(suffixes))
    /\ StrictlyDescending(PrefixesIn(bi_prefixes))

\* C2 as stated: every backing store is in (ascending) lexicographic order.
C2_AllAscending ==
    /\ StrictlyAscending(x_fixes)
    /\ StrictlyAscending(PrefixesIn(prefixes))
    /\ StrictlyAscending(SuffixesIn(suffixes))
    /\ StrictlyAscending(PrefixesIn(bi_prefixes))

\* an insert into the middle of a two-entry pair dictionary
C2_Witness ==
    /\ kind = "prefix_pair"
    /\ op[1] = "insert"
    /\ ret = Some(1)
    /\ Len(prefixes) = 3

\* C3: match_prefix returns the entry whose affix is the longest registered
\* affix that is a prefix of the candidate, and no entry only when no
\* registered affix is a prefix of it.
C3_LongestPrefix ==
    op[1] = "match_prefix" =>
        LET matching == {t \in StoredTerms : IsPrefix(PrefixAffix(t), op[2])}
        IN  IF matching = {} THEN ret = None
            ELSE /\ ret # None
                 /\ ret[1] \in matching
                 /\ \A t \in matching :
                        Len(PrefixAffix(t)) <= Len(PrefixAffix(ret[1]))

\* "a" and "ab" registered, "ab" matched: the answer is "ab"
C3_Witness ==
    /\ kind = "x_fix"
    /\ <<1>> \in Range(x_fixes)
    /\ op = <<"match_prefix", <<1, 2>>>>
    /\ ret = Some(<<1, 2>>)

\* C4: in a BiFixMatchDictPair, after every insert the suffix-ordered index
\* is a permutation of 0..len-1 of the primary store, the suffixes read
\* through it are strictly sorted (descending, the order the index is
\* searched in), and every entry stored before a step is still reached
\* through the index after it.
C4_SecondaryIndex ==
    /\ [](/\ Len(suffix_ordered_refs) = Len(bi_prefixes)
          /\ Range(suffix_ordered_refs) = 0..(Len(bi_prefixes) - 1)
          /\ StrictlyDescending(BiSuffixesInIndexOrder))
    /\ [][\A t \in Range(bi_prefixes) :
             \E k \in 1..Len(suffix_ordered_refs') :
                 GetTermByIndex(BiDict', suffix_ordered_refs'[k]) = Some(t)]_vars

\* an accepted insert after which the index order differs from the store order
C4_Witness ==
    /\ kind = "bi_fix"
    /\ op[1] = "insert"
    /\ ret = TRUE
    /\ Len(bi_prefixes) = 3
    /\ suffix_ordered_refs # <<0, 1, 2>>

\* the affixes a search runs over, in the order it runs over them
SearchedAffixes ==
    CASE kind = "x_fix" -> x_fixes
      [] kind = "prefix_pair" -> PrefixesIn(prefixes)
      [] kind = "suffix_pair" -> SuffixesIn(suffixes)
      [] kind = "bi_fix" /\ op[1] = "search_suffix" -> BiSuffixesInIndexOrder
      [] kind = "bi_fix" -> PrefixesIn(bi_prefixes)
      [] OTHER -> <<>>

InStoreOrder(strs) ==
    IF kind = "x_fix" THEN StrictlyAscending(strs) ELSE StrictlyDescending(strs)

\* C8: search (and search_suffix) returns Ok(i) with i the index holding the
\* affix when it is present, and otherwise Err(i) with 0 <= i <= length such
\* that inserting the affix at i leaves the store sorted.
C8_LowerBound ==
    op[1] \in {"search", "search_suffix"} =>
        /\ ~panicked
        /\ LET strs == SearchedAffixes
               at == {i \in 1..Len(strs) : strs[i] = op[2]}
           IN  IF at # {} THEN \E i \in at : ret = Ok(i - 1)
               ELSE /\ ret[1] = "Err"
                    /\ ret[2] \in 0..Len(strs)
                    /\ InStoreOrder(InsertAt(strs, ret[2], op[2]))

C10_LongestSuffix ==
    op[1] = "match_suffix" =>
        LET matching == {t \in StoredTerms : IsSuffix(SuffixAffix(t), op[2])}
        IN  IF matching = {} THEN ret = None
            ELSE /\ ret # None
                 /\ ret[1] \in matching
                 /\ \A t \in matching :
                        Len(SuffixAffix(t)) <= Len(SuffixAffix(ret[1]))

\* C19: once an entry with the empty affix is registered, match_prefix /
\* match_suffix always return an entry, and it is the empty-affix entry
\* exactly when no registered non-empty affix matches the candidate.
C19_EmptyAffixFallback ==
    /\ (op[1] = "match_prefix" /\ \E t \in StoredTerms : PrefixAffix(t) = <<>>) =>
           /\ ~panicked
           /\ ret # None
           /\ ret[1] \in StoredTerms
           /\ PrefixAffix(ret[1]) = <<>> <=>
                  ~\E t \in StoredTerms :
                       PrefixAffix(t) # <<>> /\ IsPrefix(PrefixAffix(t), op[2])
    /\ (op[1] = "match_suffix" /\ \E t \in StoredTerms : SuffixAffix(t) = <<>>) =>
           /\ ~panicked
           /\ ret # None
           /\ ret[1] \in StoredTerms
           /\ SuffixAffix(ret[1]) = <<>> <=>
                  ~\E t \in StoredTerms :
                       SuffixAffix(t) # <<>> /\ IsSuffix(SuffixAffix(t), op[2])

\* "" and two non-empty affixes registered, a candidate none of the
\* non-empty ones starts: the answer is ""
C19_Witness ==
    /\ kind = "x_fix"
    /\ Len(x_fixes) = 3
    /\ op[1] = "match_prefix"
    /\ op[2] # <<>>
    /\ ret = Some(<<>>)

\* the affix an insert of term looks up is already in the store
AffixPresent(term) ==
    CASE kind = "x_fix" -> term \in Range(x_fixes)
      [] kind = "prefix_pair" -> PrefixOf(term) \in Range(PrefixesIn(prefixes))
      [] kind = "suffix_pair" -> SuffixOf(term) \in Range(SuffixesIn(suffixes))
      [] OTHER -> \/ PrefixOf(term) \in Range(PrefixesIn(bi_prefixes))
                  \/ SuffixOf(term) \in Range(SuffixesIn(bi_prefixes))

\* what the return value of insert tells the caller: Some(index) of the pair
\* dictionaries and true of the bidirectional one say that the entry went in
ReportsInsertion(r) == IF kind = "bi_fix" THEN r = TRUE ELSE r # None

\* C20: an insert whose affix is already present leaves the store (entries,
\* order, payloads) as it was and does not fail, and the value it returns
\* tells it apart from an insert that added the entry.
C20_DuplicateReported ==
    [][op'[1] = "insert" =>
           /\ AffixPresent(op'[2]) =>
                  /\ ~panicked'
                  /\ UNCHANGED <<x_fixes, prefixes, suffixes, bi_prefixes,
                                 suffix_ordered_refs>>
                  /\ ~ReportsInsertion(ret')
           /\ (~AffixPresent(op'[2]) /\ ~panicked') => ReportsInsertion(ret')]_vars


\* C25: BiFixMatchDictPair::insert((p, s)) returns false and leaves the
\* primary store and the secondary index as they were when p is a registered
\* prefix or s a registered suffix; otherwise it returns true and adds one
\* entry to the store and one value to the index; prefixes and suffixes
\* each stay unique.
C25_BiInsertAllOrNothing ==
    [][(kind = "bi_fix" /\ op'[1] = "insert") =>
           LET known == \/ PrefixOf(op'[2]) \in Range(PrefixesIn(bi_prefixes))
                        \/ SuffixOf(op'[2]) \in Range(SuffixesIn(bi_prefixes))
           IN  /\ ~panicked'
               /\ known =>
                      /\ ret' = FALSE
                      /\ UNCHANGED <<bi_prefixes, suffix_ordered_refs>>
               /\ ~known =>
                      /\ ret' = TRUE
                      /\ Len(bi_prefixes') = Len(bi_prefixes) + 1
                      /\ Len(suffix_ordered_refs') = Len(suffix_ordered_refs) + 1
                      /\ Range(bi_prefixes') = Range(bi_prefixes) \cup {op'[2]}
               /\ Cardinality(Range(PrefixesIn(bi_prefixes'))) = Len(bi_prefixes')
               /\ Cardinality(Range(SuffixesIn(bi_prefixes'))) = Len(bi_prefixes')]_vars

\* a rejected insert of an entry whose suffix is new and whose prefix is
\* registered
C25_Witness ==
    /\ kind = "bi_fix"
    /\ op[1] = "insert"
    /\ ret = FALSE
    /\ PrefixOf(op[2]) \in Range(PrefixesIn(bi_prefixes))
    /\ SuffixOf(op[2]) \notin Range(SuffixesIn(bi_prefixes))
    /\ Len(suffix_ordered_refs) = 2

\* C29: on an empty XFixMatchDict search returns not-found with insertion
\* index 0 and insert yields a one-entry dictionary, neither of them
\* failing.
C29_EmptyStoreSearch ==
    [][(kind = "x_fix" /\ x_fixes = <<>> /\ op'[1] \in {"search", "insert"}) =>
           /\ ~panicked'
           /\ op'[1] = "search" => ret' = Err(0)
           /\ op'[1] = "insert" => x_fixes' = <<op'[2]>>]_vars

\* the store of the constructed dictionary, and its lookups on a candidate
Store ==
    CASE kind = "x_fix" -> x_fixes
      [] kind = "prefix_pair" -> prefixes
      [] kind = "suffix_pair" -> suffixes
      [] kind = "bi_fix" -> BiDict

\* the dictionary the same items give when inserted one at a time
Incremental(items) ==
    CASE kind = "x_fix" -> XFixMatchDictMacro(items)
      [] kind = "prefix_pair" -> PrefixMatchDictPairMacro(items)
      [] kind = "suffix_pair" -> SuffixMatchDictPairMacro(items)
      [] kind = "bi_fix" -> BiFixMatchDictPairMacro(items)

\* the answers of the dictionary type to match_prefix / match_suffix on a
\* store (a bidirectional store is read as d.prefixes with d.refs)
Lookups(store, to_match) ==
    CASE kind = "x_fix" ->
             <<XFixMatchPrefix(store, to_match), XFixMatchSuffix(store, to_match)>>
      [] kind = "prefix_pair" -> <<PrefixPairMatchPrefix(store, to_match)>>
      [] kind = "suffix_pair" -> <<SuffixPairMatchSuffix(store, to_match)>>
      [] kind = "bi_fix" -> <<BiMatchPrefix(store, to_match).ret,
                              BiMatchSuffix(store, to_match).ret>>

\* C21: a dictionary constructed by new from any sequence of entries has a
\* store that is sorted and duplicate-free, and equals the dictionary the
\* same entries give when inserted one at a time into an empty one: same
\* store, same answers to match_prefix / match_suffix.
C21_NewAsIncremental ==
    (op[1] = "new" /\ kind # "bi_fix") =>
        /\ ~panicked
        /\ StrictlyAscending(x_fixes)
        /\ StrictlyDescending(PrefixesIn(prefixes))
        /\ StrictlyDescending(SuffixesIn(suffixes))
        /\ ~Incremental(op[2]).panic =>
               /\ Store = Incremental(op[2]).d
               /\ \A to_match \in Candidates :
                      Lookups(Store, to_match)
                          = Lookups(Incremental(op[2]).d, to_match)

\* C30: BiFixMatchDictPair::new(entries) is the dictionary obtained by
\* inserting the entries in order into the default dictionary, so when built
\* from pairs of non-empty prefixes and suffixes it answers a candidate that
\* starts / ends with none of them with no match.
C30_BiNewAsInserts ==
    (op[1] = "new" /\ kind = "bi_fix") =>
        LET inc == BiFixMatchDictPairMacro(op[2])
            bracket == \A t \in Range(op[2]) : PrefixOf(t) # <<>> /\ SuffixOf(t) # <<>>
        IN  /\ ~panicked
            /\ BiDict = inc.d
            /\ bracket =>
                   \A to_match \in Candidates :
                       /\ (~\E t \in Range(op[2]) : IsPrefix(PrefixOf(t), to_match))
                              => BiMatchPrefix(BiDict, to_match).ret = None
                       /\ (~\E t \in Range(op[2]) : IsSuffix(SuffixOf(t), to_match))
                              => BiMatchSuffix(BiDict, to_match).ret = None

====
